---- MODULE Spec2Model ----
(***************************************************************************)
(* Model of orchestrator.py: configuration resolution (load_all, the       *)
(* checks at the head of `up`), the staged start-up of the tracing sink,   *)
(* the proxy, the MCP server and the client, and shutdown_all.             *)
(***************************************************************************)
EXTENDS Integers, Sequences, FiniteSets, TLC

(***************************************************************************)
(* Bounds                                                                  *)
(***************************************************************************)
\* number of connection attempts wait_port makes before its deadline elapses
MaxAttempts == 2
\* number of SIGINT/SIGTERM deliveries considered in one run
MaxSignals == 2
\* the client's exit codes are drawn from 0..MaxClientCode
MaxClientCode == 1
\* a stand-alone wait_port call gets a timeout of 0..MaxTimeout tenths of a second
MaxTimeout == 8

(***************************************************************************)
(* Values of the configuration document.  A mapping is a function from     *)
(* keys to tagged values, so that isinstance(v, dict) can be evaluated.    *)
(***************************************************************************)
NoneVal == "<None>"

S(x) == [k |-> "str", v |-> x]
L(x) == [k |-> "list", v |-> x]
B(x) == [k |-> "bool", v |-> x]
D(f) == [k |-> "dict", v |-> f]

\* urlparse results: port 0 stands for "no port", hostname "" for None
Url(scheme, host, port, path) ==
    [scheme |-> scheme, netloc |-> host, hostname |-> host, port |-> port,
     path |-> path, params |-> "", query |-> "", fragment |-> ""]

AgentProvider == {"pydanticai", "crew_ai", "langchain"}
ModelProvider == {"openai", "anthropic", "azure_openai", "gemini"}
ProxyKind == {"mitmproxy", "none"}

\* The document read by load_all: defaults, profiles and lookups.
RawDoc ==
    [defaults |->
        [agent_provider |-> S("pydanticai"),
         model_provider |-> S("openai"),
         proxy |-> D([enabled |-> B(TRUE), kind |-> S("mitmproxy")]),
         mcp_server_variant |-> S("stdio"),
         mcp_client_variant |-> S("stdio")],
     profiles |->
        [dev |-> [mcp |-> D([server_variant |-> S("http"),
                             client_variant |-> S("http")])],
         noproxy |-> [proxy |-> D([enabled |-> B(FALSE)])],
         kindnone |-> [proxy |-> D([kind |-> S("none")])],
         bare |-> <<>>],
     lookups |->
        [model_reverse_target |->
            [openai |-> Url("https", "api.openai.com", 0, ""),
             anthropic |-> Url("https", "api.anthropic.com", 0, "/v1"),
             azure_openai |-> Url("https", "example.openai.azure.com", 0, "/")],
         mcp |->
            [pydanticai |->
                [servers |->
                    [stdio |-> [type |-> "stdio", cmd |-> <<"math_stdio">>],
                     quiet |-> [type |-> "stdio"],
                     http |-> [type |-> "http", cmd |-> <<"math_http">>,
                               url |-> Url("http", "127.0.0.1", 9999, "/mcp")],
                     nohost |-> [type |-> "http", cmd |-> <<"math_http">>,
                                 url |-> Url("http", "", 0, "/mcp")],
                     sse |-> [type |-> "sse", cmd |-> <<"math_sse">>]],
                 clients |->
                    [stdio |-> [type |-> "stdio", cmd |-> <<"client_stdio">>],
                     http |-> [type |-> "http", cmd |-> <<"client_http">>,
                               client_path |-> "http.json"],
                     sse |-> [type |-> "sse", cmd |-> <<"client_sse">>]]]]]]

(***************************************************************************)
(* Utilities                                                               *)
(***************************************************************************)

_shallow_merge(a, b) ==
    [key \in (DOMAIN a) \cup (DOMAIN b) |->
        IF key \in DOMAIN b THEN b[key] ELSE a[key]]

\* _deep_merge(a, b): deep-merge b into a (the result is the new a)
RECURSIVE _deep_merge(_, _)
_deep_merge(a, b) ==
    [key \in (DOMAIN a) \cup (DOMAIN b) |->
        IF key \in DOMAIN b
        THEN IF b[key].k = "dict" /\ key \in DOMAIN a /\ a[key].k = "dict"
             THEN D(_deep_merge(a[key].v, b[key].v))
             ELSE b[key]
        ELSE a[key]]

has_scheme_and_host(u) == u.scheme # "" /\ u.netloc # ""

\* is_host_only_url (lines 126-131) on the urlparse result u
is_host_only_url(u) ==
    IF u.scheme = "" \/ u.netloc = ""
    THEN FALSE
    ELSE u.path \in {"", "/"} /\ u.params = "" /\ u.query = "" /\ u.fragment = ""

(***************************************************************************)
(* Loading config                                                          *)
(***************************************************************************)

\* Python truthiness of an optional string (None and "" are falsy)
Truthy(x) == x \notin {NoneVal, ""}

\* lines 152-158: flatten a nested mcp mapping into the top-level keys
FlattenMcp(d) ==
    LET rest == [key \in (DOMAIN d) \ {"mcp"} |-> d[key]]
    IN  IF "mcp" \in DOMAIN d /\ d["mcp"].k = "dict"
        THEN LET m == d["mcp"].v
                 r1 == IF "server_variant" \in DOMAIN m
                       THEN ("mcp_server_variant" :> m["server_variant"]) @@ rest
                       ELSE rest
             IN  IF "client_variant" \in DOMAIN m
                 THEN ("mcp_client_variant" :> m["client_variant"]) @@ r1
                 ELSE r1
        ELSE rest

\* ProxyCfg: defaults for the fields the mapping leaves out
ProxyCfg(d) ==
    LET m == IF "proxy" \in DOMAIN d THEN d["proxy"].v ELSE <<>>
    IN  [enabled |-> IF "enabled" \in DOMAIN m THEN m["enabled"].v ELSE TRUE,
         kind |-> IF "kind" \in DOMAIN m THEN m["kind"].v ELSE "mitmproxy",
         listen_host |-> IF "listen_host" \in DOMAIN m THEN m["listen_host"].v
                         ELSE "127.0.0.1",
         listen_port |-> IF "listen_port" \in DOMAIN m THEN m["listen_port"].v
                         ELSE 8002]

\* TracingCfg: defaults for the fields the mapping leaves out
TracingCfg(d) ==
    LET m == IF "tracing_api" \in DOMAIN d THEN d["tracing_api"].v ELSE <<>>
    IN  [host |-> IF "host" \in DOMAIN m THEN m["host"].v ELSE "127.0.0.1",
         port |-> IF "port" \in DOMAIN m THEN m["port"].v ELSE 7000]

\* ClientCfg: cmd is required, args defaults to the empty list
ClientCfg(def) ==
    [cmd |-> def.cmd,
     args |-> IF "args" \in DOMAIN def THEN def.args ELSE <<>>]

NoCfg == [agent_provider |-> NoneVal, model_provider |-> NoneVal,
          proxy |-> [enabled |-> FALSE, kind |-> "none",
                     listen_host |-> "", listen_port |-> 0],
          tracing_api |-> [host |-> "", port |-> 0],
          client |-> [cmd |-> <<>>, args |-> <<>>],
          mcp_server_variant |-> NoneVal, mcp_client_variant |-> NoneVal]

Failed(reason) == [err |-> reason, cfg |-> NoCfg]

\* Config.model_validate on the merged and flattened mapping
Config(d, client_def) ==
    IF \/ d["agent_provider"].v \notin AgentProvider
       \/ ("model_provider" \in DOMAIN d /\ d["model_provider"].v \notin ModelProvider)
       \/ ProxyCfg(d).kind \notin ProxyKind
       \/ "cmd" \notin DOMAIN client_def
    THEN Failed("validation_error")
    ELSE [err |-> "",
          cfg |-> [agent_provider |-> d["agent_provider"].v,
                   model_provider |-> IF "model_provider" \in DOMAIN d
                                      THEN d["model_provider"].v ELSE "openai",
                   proxy |-> ProxyCfg(d),
                   tracing_api |-> TracingCfg(d),
                   client |-> ClientCfg(client_def),
                   mcp_server_variant |-> IF "mcp_server_variant" \in DOMAIN d
                                          THEN d["mcp_server_variant"].v ELSE "stdio",
                   mcp_client_variant |-> d["mcp_client_variant"].v]]

\* line 148: `not prof` for the value profiles.get(profile)
ProfileMissing(profiles, profile) ==
    \/ profile \notin DOMAIN profiles
    \/ DOMAIN profiles[profile] = {}

\* line 145: `if profile:`
ProfileRequested(profile) == Truthy(profile)

load_all(raw, profile) ==
    IF ProfileRequested(profile) /\ ProfileMissing(raw.profiles, profile)
    THEN Failed("profile_not_found")
    ELSE
      LET merged == IF ProfileRequested(profile)
                    THEN _deep_merge(raw.defaults, raw.profiles[profile])
                    ELSE raw.defaults
          cfg_dict == FlattenMcp(merged)
          mcp == raw.lookups.mcp
      IN  \* line 168: plain subscripts, a missing key is a KeyError
          IF \/ "agent_provider" \notin DOMAIN cfg_dict
             \/ "mcp_client_variant" \notin DOMAIN cfg_dict
          THEN Failed("key_error")
          ELSE LET a == cfg_dict["agent_provider"].v
                   c == cfg_dict["mcp_client_variant"].v
               IN  IF \/ a \notin DOMAIN mcp
                      \/ "clients" \notin DOMAIN mcp[a]
                      \/ c \notin DOMAIN mcp[a]["clients"]
                   THEN Failed("key_error")
                   ELSE Config(cfg_dict, mcp[a]["clients"][c])

(***************************************************************************)
(* Command `up`: CLI overrides and variant resolution (lines 280-336)      *)
(***************************************************************************)

NoDef == [type |-> NoneVal]
NoUrl == Url("", "", 0, "")

\* lines 280-288: a CLI option replaces the loaded value only when truthy
Override(opt, loaded) == IF Truthy(opt) THEN opt ELSE loaded

ApplyOverrides(cfg, opts) ==
    [cfg EXCEPT !.agent_provider = Override(opts.agent, @),
                !.model_provider = Override(opts.model, @),
                !.mcp_server_variant = Override(opts.mcp_server_variant, @),
                !.mcp_client_variant = Override(opts.mcp_client_variant, @)]

TransportsReconciled(server_type, client_type) == TRUE

\* line 313: the server and client transports must be the same
TransportsAlign(server_type, client_type) == server_type = client_type

\* str(d.get("type"))
TypeOf(def) == IF "type" \in DOMAIN def THEN def.type ELSE "None"

Unresolved(reason, cfg) ==
    [err |-> reason, cfg |-> cfg, reverse_target |-> NoUrl, has_target |-> FALSE,
     server_def |-> NoDef, client_def |-> NoDef, server_type |-> NoneVal,
     http_url |-> NoUrl]

\* lines 290-336, given the configuration after the CLI overrides
Resolve(cfg, lookups) ==
    LET has_target == cfg.model_provider \in DOMAIN lookups.model_reverse_target
        reverse_target == IF has_target
                          THEN lookups.model_reverse_target[cfg.model_provider]
                          ELSE NoUrl
        agent_key == cfg.agent_provider
    IN
    IF cfg.proxy.enabled /\ ~has_target
    THEN Unresolved("no_reverse_target", cfg)
    ELSE IF agent_key \notin DOMAIN lookups.mcp
    THEN Unresolved("no_agent_mcp", cfg)
    ELSE
      LET agent_mcp == lookups.mcp[agent_key]
          servers == IF "servers" \in DOMAIN agent_mcp THEN agent_mcp.servers ELSE <<>>
          clients == IF "clients" \in DOMAIN agent_mcp THEN agent_mcp.clients ELSE <<>>
      IN
      IF cfg.mcp_server_variant \notin DOMAIN servers
      THEN Unresolved("no_server_variant", cfg)
      ELSE IF cfg.mcp_client_variant \notin DOMAIN clients
      THEN Unresolved("no_client_variant", cfg)
      ELSE
        LET server_def == servers[cfg.mcp_server_variant]
            client_def == clients[cfg.mcp_client_variant]
            server_type == TypeOf(server_def)
            client_type == TypeOf(client_def)
        IN
        IF ~TransportsAlign(server_type, client_type)
        THEN Unresolved("transport_mismatch", cfg)
        ELSE IF server_type = "http" /\ "url" \notin DOMAIN server_def
        THEN Unresolved("no_http_url", cfg)
        ELSE [err |-> "", cfg |-> cfg, reverse_target |-> reverse_target,
              has_target |-> has_target,
              server_def |-> server_def, client_def |-> client_def,
              server_type |-> server_type,
              http_url |-> IF server_type = "http" THEN server_def.url ELSE NoUrl]

(***************************************************************************)
(* Environment of the child processes (build_env, lines 319-336)           *)
(***************************************************************************)
PutIfAbsent(env, key, value) ==
    IF key \in DOMAIN env THEN env
    ELSE [x \in (DOMAIN env) \cup {key} |-> IF x = key THEN value ELSE env[x]]

\* env[key] = value
Put(env, key, value) ==
    [x \in (DOMAIN env) \cup {key} |-> IF x = key THEN value ELSE env[x]]

SetDefaultOverwrites(env, key, value) ==
    [x \in (DOMAIN env) \cup {key} |-> IF x = key THEN value ELSE env[x]]

\* env.setdefault(key, value)
SetDefault(env, key, value) ==
    IF key \in DOMAIN env THEN env
    ELSE [x \in (DOMAIN env) \cup {key} |-> IF x = key THEN value ELSE env[x]]

\* f"http://{host}:{port}"
HttpAddr(host, port) == "http://" \o host \o ":" \o ToString(port)

\* the text of a URL whose parse is u
UrlText(u) ==
    u.scheme \o "://" \o u.netloc
        \o (IF u.port # 0 THEN ":" \o ToString(u.port) ELSE "") \o u.path

\* build_env: the new map, and the base map as the call leaves it
build_env(base, cfg) ==
    LET e0 == base
        e1 == Put(e0, "AGENT_PROVIDER", cfg.agent_provider)
        e2 == Put(e1, "MODEL_PROVIDER", cfg.model_provider)
        e3 == Put(e2, "TRACING_API", HttpAddr(cfg.tracing_api.host, cfg.tracing_api.port))
        e4 == IF cfg.proxy.enabled /\ cfg.proxy.kind # "none"
              THEN SetDefault(e3, "BASE_URL",
                              HttpAddr(cfg.proxy.listen_host, cfg.proxy.listen_port))
              ELSE e3
    IN  [env |-> e4, base |-> base]

\* lines 320-336: the environment handed to every child of a resolved run
ChildEnv(base, r) ==
    LET e0 == build_env(base, r.cfg).env
        e1 == Put(e0, "MCP_AGENT_PROVIDER", r.cfg.agent_provider)
        e2 == Put(e1, "MCP_SERVER_VARIANT", r.cfg.mcp_server_variant)
        e3 == Put(e2, "MCP_CLIENT_VARIANT", r.cfg.mcp_client_variant)
        e4 == Put(e3, "MCP_TRANSPORT", r.server_type)
        e5 == IF "client_path" \in DOMAIN r.client_def /\ r.client_def.client_path # ""
              THEN Put(e4, "MCP_CLIENT_CONFIG", r.client_def.client_path)
              ELSE e4
    IN  IF r.server_type = "http"
        THEN Put(e5, "MCP_SERVER_URL", UrlText(r.http_url))
        ELSE e5

\* lines 276-336: load_all, the overrides, then the resolution
Prepare(raw, opts) ==
    LET loaded == load_all(raw, opts.profile)
    IN  IF loaded.err # ""
        THEN Unresolved(loaded.err, loaded.cfg)
        ELSE Resolve(ApplyOverrides(loaded.cfg, opts), raw.lookups)

(***************************************************************************)
(* State                                                                   *)
(***************************************************************************)
VARIABLES
    opts,       \* the CLI options of this run
    base_env,   \* os.environ
    env,        \* the environment built for the child processes
    mrg,        \* arguments and result of a stand-alone _deep_merge call
    wp,         \* a stand-alone wait_port call: clock, deadline, attempts, result
    rr,         \* the resolved run (configuration, definitions, reverse target)
    pc,         \* position of the control thread in `up`
    procs,      \* the handle list of `up`, in append order
    spawned,    \* every child process created so far, in creation order
    pstate,     \* per child: status, listening port, signals received, exit code
    attempts,   \* failed connection attempts of the current wait_port call
    sd,         \* the running shutdown_all call: pass, position, pending exit code
    termLog,    \* terminate signals sent by the running shutdown_all call
    sdCalls,    \* number of shutdown_all calls begun
    sigCount,   \* signals delivered to the orchestrator
    readyOK,    \* stages whose wait_port call returned True
    fatal,      \* the error that ended the run ("" if none)
    exitCode    \* exit status of the orchestrator (-1 while running)

vars == <<opts, base_env, env, mrg, wp, rr, pc, procs, spawned, pstate, attempts, sd, termLog, sdCalls,
          sigCount, readyOK, fatal, exitCode>>

Stages == <<"tracing", "proxy", "mcp", "client">>
StageSet == {Stages[n] : n \in 1..Len(Stages)}

Profiles == {NoneVal, "", "ghost", "bare", "dev", "noproxy", "kindnone"}
AgentOpts == {NoneVal, "crew_ai"}
ModelOpts == {NoneVal, "anthropic", "azure_openai", "gemini"}
ServerOpts == {NoneVal, "http", "quiet", "nohost", "sse", "nope"}
ClientOpts == {NoneVal, "http", "sse", "nope"}

NotStarted == [st |-> "none", listening |-> FALSE, opened |-> FALSE,
               termed |-> FALSE, killed |-> FALSE, rc |-> 0,
               cmd |-> <<>>, env |-> <<>>]
Started == [NotStarted EXCEPT !.st = "running"]
Idle == [phase |-> "idle", i |-> 0, code |-> 0, waited |-> <<>>]

\* two states of os.environ: nothing of interest set, or every derived key
\* already set to some other value
PlainEnv == [PATH |-> "/usr/bin"]
StaleEnv == [PATH |-> "/usr/bin", BASE_URL |-> "http://10.0.0.1:9",
             MCP_AGENT_PROVIDER |-> "stale", MCP_SERVER_VARIANT |-> "stale",
             MCP_CLIENT_VARIANT |-> "stale", MCP_TRANSPORT |-> "stale",
             MCP_SERVER_URL |-> "stale", MCP_CLIENT_CONFIG |-> "stale"]
BaseEnvs == {PlainEnv, StaleEnv}

NoMerge == [a |-> <<>>, b |-> <<>>, out |-> <<>>, done |-> FALSE]
NoWait == [st |-> "idle", now |-> 0, end |-> 0, log |-> <<>>, ret |-> FALSE]

Init ==
    /\ base_env \in BaseEnvs
    /\ env = <<>>
    /\ mrg = NoMerge
    /\ wp = NoWait
    /\ opts \in [profile : Profiles, agent : AgentOpts, model : ModelOpts,
                 mcp_server_variant : ServerOpts, mcp_client_variant : ClientOpts]
    /\ rr = Unresolved("", NoCfg)
    /\ pc = "init"
    /\ procs = <<>>
    /\ spawned = <<>>
    /\ pstate = [s \in StageSet |-> NotStarted]
    /\ attempts = 0
    /\ sd = Idle
    /\ termLog = <<>>
    /\ sdCalls = 0
    /\ sigCount = 0
    /\ readyOK = {}
    /\ fatal = ""
    /\ exitCode = -1

Running(s) == pstate[s].st = "running"

(***************************************************************************)
(* Utilities used by the stages                                            *)
(***************************************************************************)

\* die (lines 98-100): print the message and raise SystemExit(1)
DieCode == 1

die(msg) ==
    /\ pc' = "done"
    /\ exitCode' = DieCode
    /\ fatal' = msg

\* an exception no handler catches ends the interpreter with status 1
Uncaught(kind) ==
    /\ pc' = "done"
    /\ exitCode' = 1
    /\ fatal' = kind

\* subprocess.Popen(cmd, env=env) succeeded: a new child process exists
Popen(s, cmd) ==
    /\ spawned' = Append(spawned, s)
    /\ pstate' = [pstate EXCEPT ![s] = [Started EXCEPT !.cmd = cmd, !.env = env]]

ShutdownOrderForward(ps) == ps

\* procs[::-1]
ShutdownOrder(ps) == [n \in 1..Len(ps) |-> ps[Len(ps) + 1 - n]]

_shutdown_and_resume(code) ==
    /\ pc' = IF pc = "client_wait" THEN "shutdown" ELSE pc
    /\ sd' = [phase |-> IF Len(procs) = 0 THEN "raise" ELSE "term", i |-> 1,
              code |-> code, waited |-> <<>>]
    /\ termLog' = <<>>
    /\ sdCalls' = sdCalls + 1

\* entry of shutdown_all(procs) from _shutdown_and_exit(code)
_shutdown_and_exit(code) ==
    /\ pc' = "shutdown"
    /\ sd' = [phase |-> IF Len(procs) = 0 THEN "raise" ELSE "term", i |-> 1,
              code |-> code, waited |-> <<>>]
    /\ termLog' = <<>>
    /\ sdCalls' = sdCalls + 1

(***************************************************************************)
(* Resolution (lines 276-349)                                              *)
(***************************************************************************)
LoadAndResolve ==
    /\ pc = "init"
    /\ LET r == Prepare(RawDoc, opts)
       IN  /\ rr' = r
           /\ IF r.err = ""
              THEN /\ pc' = "start_tracing"
                   /\ env' = ChildEnv(base_env, r)
                   /\ base_env' = build_env(base_env, r.cfg).base
                   /\ UNCHANGED <<exitCode, fatal>>
              ELSE /\ UNCHANGED <<base_env, env>>
                   /\ IF r.err = "key_error" THEN Uncaught(r.err) ELSE die(r.err)
    /\ UNCHANGED <<opts, mrg, wp, procs, spawned, pstate, attempts, sd, termLog, sdCalls,
                   sigCount, readyOK>>

(***************************************************************************)
(* wait_port (lines 112-123)                                               *)
(***************************************************************************)
WaitStage == [wait_tracing |-> "tracing", wait_proxy |-> "proxy", wait_mcp |-> "mcp"]
WaitNext == [wait_tracing |-> "proxy", wait_proxy |-> "mcp", wait_mcp |-> "run_client"]
Waiting == pc \in DOMAIN WaitStage

PortOpenAlways(s) == TRUE

\* line 118: connect_ex(...) == 0
PortOpen(s) == pstate[s].listening

\* line 114: the loop goes on while the deadline has not passed
BeforeDeadline == attempts < MaxAttempts

\* a connection attempt succeeds: wait_port returns True and the stage is passed
ProbeSucceeds ==
    /\ Waiting
    /\ BeforeDeadline
    /\ PortOpen(WaitStage[pc])
    /\ readyOK' = readyOK \cup {WaitStage[pc]}
    /\ pc' = WaitNext[pc]
    /\ UNCHANGED <<opts, base_env, env, mrg, wp, rr, procs, spawned, pstate, attempts, sd, termLog,
                   sdCalls, sigCount, fatal, exitCode>>

ProbeFailsUncounted ==
    /\ Waiting
    /\ BeforeDeadline
    /\ ~PortOpen(WaitStage[pc])
    /\ UNCHANGED vars

\* refused, timed out or OSError: sleep and try again
ProbeFails ==
    /\ Waiting
    /\ BeforeDeadline
    /\ ~PortOpen(WaitStage[pc])
    /\ attempts' = attempts + 1
    /\ UNCHANGED <<opts, base_env, env, mrg, wp, rr, pc, procs, spawned, pstate, sd, termLog, sdCalls,
                   sigCount, readyOK, fatal, exitCode>>

\* wait_port returns False: lines 355, 363, 383
ProbeTimesOut ==
    /\ Waiting
    /\ ~BeforeDeadline
    /\ die("readiness_timeout")
    /\ UNCHANGED <<opts, base_env, env, mrg, wp, rr, procs, spawned, pstate, attempts, sd, termLog,
                   sdCalls, sigCount, readyOK>>

(***************************************************************************)
(* 1) tracing api (lines 351-355)                                          *)
(***************************************************************************)
StartTracing ==
    /\ pc = "start_tracing"
    /\ Popen("tracing", <<"uvicorn", "src.api.api:app">>)
    /\ pc' = "append_tracing"
    /\ UNCHANGED <<opts, base_env, env, mrg, wp, rr, procs, attempts, sd, termLog, sdCalls, sigCount,
                   readyOK, fatal, exitCode>>

\* procs.append(...) of lines 353, 361, 369, 376
AppendNext(s) ==
    IF s = "tracing" THEN "wait_tracing"
    ELSE IF s = "proxy" THEN "wait_proxy"
    ELSE IF rr.server_type = "stdio" THEN "grace" ELSE "mcp_url"

AppendHandle ==
    /\ pc \in {"append_tracing", "append_proxy", "append_mcp"}
    /\ LET s == spawned[Len(spawned)]
       IN  /\ procs' = Append(procs, s)
           /\ pc' = AppendNext(s)
    /\ attempts' = 0
    /\ UNCHANGED <<opts, base_env, env, mrg, wp, rr, spawned, pstate, sd, termLog, sdCalls, sigCount,
                   readyOK, fatal, exitCode>>

(***************************************************************************)
(* 2) proxy (lines 357-363, start_proxy lines 197-220)                     *)
(***************************************************************************)
\* line 358
ProxyStageRuns(cfg) == cfg.proxy.enabled /\ cfg.proxy.kind # "none"

\* start_proxy: "none" (returns None), "die" or "spawn"
start_proxy(kind, reverse_target) ==
    IF kind = "none" THEN "none"
    ELSE IF kind = "mitmproxy"
         THEN IF ~is_host_only_url(reverse_target) THEN "die" ELSE "spawn"
         ELSE "die"

SkipProxy ==
    /\ pc = "proxy"
    /\ \/ ~ProxyStageRuns(rr.cfg)
       \/ start_proxy(rr.cfg.proxy.kind, rr.reverse_target) = "none"
    /\ pc' = "mcp"
    /\ UNCHANGED <<opts, base_env, env, mrg, wp, rr, procs, spawned, pstate, attempts, sd, termLog,
                   sdCalls, sigCount, readyOK, fatal, exitCode>>

RejectReverseTarget ==
    /\ pc = "proxy"
    /\ ProxyStageRuns(rr.cfg)
    /\ start_proxy(rr.cfg.proxy.kind, rr.reverse_target) = "die"
    /\ die("bad_reverse_target")
    /\ UNCHANGED <<opts, base_env, env, mrg, wp, rr, procs, spawned, pstate, attempts, sd, termLog,
                   sdCalls, sigCount, readyOK>>

StartProxy ==
    /\ pc = "proxy"
    /\ ProxyStageRuns(rr.cfg)
    /\ start_proxy(rr.cfg.proxy.kind, rr.reverse_target) = "spawn"
    /\ Popen("proxy", <<"mitmdump", "-s", "src/proxy/reverse_logger.py", "--mode",
                         "reverse:" \o UrlText(rr.reverse_target)>>)
    /\ pc' = "append_proxy"
    /\ UNCHANGED <<opts, base_env, env, mrg, wp, rr, procs, attempts, sd, termLog, sdCalls, sigCount,
                   readyOK, fatal, exitCode>>

(***************************************************************************)
(* 3) MCP server (lines 365-385)                                           *)
(***************************************************************************)
\* server_def.get("cmd") is truthy
HasCmd(def) == "cmd" \in DOMAIN def /\ Len(def.cmd) > 0

McpPlanHttpOnly(server_type, server_def) ==
    IF server_type = "stdio" THEN "skip"
    ELSE IF server_type = "http" THEN "spawn"
    ELSE "die"

\* what stage 3 does first: "spawn", "skip" (stdio without a command) or "die"
McpPlan(server_type, server_def) ==
    IF server_type = "stdio"
    THEN IF HasCmd(server_def) THEN "spawn" ELSE "skip"
    ELSE IF server_type = "http" THEN "spawn"
    ELSE "die"

StartMcp ==
    /\ pc = "mcp"
    /\ McpPlan(rr.server_type, rr.server_def) = "spawn"
    /\ Popen("mcp", rr.server_def.cmd)
    /\ pc' = "append_mcp"
    /\ UNCHANGED <<opts, base_env, env, mrg, wp, rr, procs, attempts, sd, termLog, sdCalls, sigCount,
                   readyOK, fatal, exitCode>>

SkipMcp ==
    /\ pc = "mcp"
    /\ McpPlan(rr.server_type, rr.server_def) = "skip"
    /\ pc' = "run_client"
    /\ UNCHANGED <<opts, base_env, env, mrg, wp, rr, procs, spawned, pstate, attempts, sd, termLog,
                   sdCalls, sigCount, readyOK, fatal, exitCode>>

UnsupportedMcpType ==
    /\ pc = "mcp"
    /\ McpPlan(rr.server_type, rr.server_def) = "die"
    /\ die("unsupported_mcp_type")
    /\ UNCHANGED <<opts, base_env, env, mrg, wp, rr, procs, spawned, pstate, attempts, sd, termLog,
                   sdCalls, sigCount, readyOK>>

\* line 371: time.sleep(0.5) returns
GraceOver ==
    /\ pc = "grace"
    /\ pc' = "run_client"
    /\ UNCHANGED <<opts, base_env, env, mrg, wp, rr, procs, spawned, pstate, attempts, sd, termLog,
                   sdCalls, sigCount, readyOK, fatal, exitCode>>

\* lines 377-381: the host of the advertised URL
McpUrlParsed ==
    /\ pc = "mcp_url"
    /\ rr.http_url.hostname # ""
    /\ pc' = "wait_mcp"
    /\ UNCHANGED <<opts, base_env, env, mrg, wp, rr, procs, spawned, pstate, attempts, sd, termLog,
                   sdCalls, sigCount, readyOK, fatal, exitCode>>

McpUrlInvalid ==
    /\ pc = "mcp_url"
    /\ rr.http_url.hostname = ""
    /\ die("invalid_mcp_url")
    /\ UNCHANGED <<opts, base_env, env, mrg, wp, rr, procs, spawned, pstate, attempts, sd, termLog,
                   sdCalls, sigCount, readyOK>>

\* Popen raises (command not found, fork failure) in any of the four stages
SpawnFails ==
    /\ \/ pc = "start_tracing"
       \/ pc = "proxy" /\ ProxyStageRuns(rr.cfg)
                       /\ start_proxy(rr.cfg.proxy.kind, rr.reverse_target) = "spawn"
       \/ pc = "mcp" /\ McpPlan(rr.server_type, rr.server_def) = "spawn"
       \/ pc = "run_client"
    /\ Uncaught("spawn_failure")
    /\ UNCHANGED <<opts, base_env, env, mrg, wp, rr, procs, spawned, pstate, attempts, sd, termLog,
                   sdCalls, sigCount, readyOK>>

(***************************************************************************)
(* 4) client (lines 387-389, run_client lines 228-230)                     *)
(***************************************************************************)
RunClient ==
    /\ pc = "run_client"
    /\ Popen("client", rr.cfg.client.cmd \o rr.cfg.client.args)
    /\ pc' = "client_wait"
    /\ UNCHANGED <<opts, base_env, env, mrg, wp, rr, procs, attempts, sd, termLog, sdCalls, sigCount,
                   readyOK, fatal, exitCode>>

run_client_ok(rc) == 0

\* the value run_client returns: proc.wait()
run_client(rc) == rc

ClientReturns ==
    /\ pc = "client_wait"
    /\ pstate["client"].st = "exited"
    /\ _shutdown_and_exit(run_client(pstate["client"].rc))
    /\ UNCHANGED <<opts, base_env, env, mrg, wp, rr, procs, spawned, pstate, attempts, sigCount, readyOK,
                   fatal, exitCode>>

(***************************************************************************)
(* shutdown_all (lines 233-245)                                            *)
(***************************************************************************)
StillRunningAlways(s) == TRUE

\* `p and p.poll() is None`
StillRunning(s) == Running(s)

Target == ShutdownOrder(procs)[sd.i]
LastOne == sd.i = Len(procs)

AfterTerminateOnePass == [sd EXCEPT !.phase = "wait"]

\* the first loop moves on; after its last handle the second loop starts
AfterTerminate == IF LastOne THEN [sd EXCEPT !.phase = "wait", !.i = 1]
                  ELSE [sd EXCEPT !.i = @ + 1]

\* first loop: terminate each process that is still running
TerminateStep ==
    /\ pc = "shutdown"
    /\ sd.phase = "term"
    /\ IF StillRunning(Target)
       THEN /\ pstate' = [pstate EXCEPT ![Target].termed = TRUE]
            /\ termLog' = Append(termLog, [p |-> Target, alive |-> Running(Target)])
       ELSE UNCHANGED <<pstate, termLog>>
    /\ sd' = AfterTerminate
    /\ UNCHANGED <<opts, base_env, env, mrg, wp, rr, pc, procs, spawned, attempts, sdCalls, sigCount,
                   readyOK, fatal, exitCode>>

\* the second loop moves on, having dealt with Target (killed or not)
AfterWait(killed) ==
    LET w == Append(sd.waited,
                    [p |-> Target, killed |-> killed, alive |-> Running(Target)])
    IN  IF LastOne THEN [sd EXCEPT !.phase = "raise", !.waited = w]
        ELSE [sd EXCEPT !.i = @ + 1, !.waited = w]

\* second loop: the process has exited (before the poll or within the window)
WaitDone ==
    /\ pc = "shutdown"
    /\ sd.phase = "wait"
    /\ ~StillRunning(Target)
    /\ sd' = AfterWait(FALSE)
    /\ UNCHANGED <<opts, base_env, env, mrg, wp, rr, pc, procs, spawned, pstate, attempts, termLog,
                   sdCalls, sigCount, readyOK, fatal, exitCode>>

\* second loop: TimeoutExpired after the wait window, p.kill()
WaitExpires ==
    /\ pc = "shutdown"
    /\ sd.phase = "wait"
    /\ StillRunning(Target)
    /\ pstate' = [pstate EXCEPT ![Target].killed = TRUE, ![Target].st = "exited",
                                ![Target].listening = FALSE]
    /\ sd' = AfterWait(TRUE)
    /\ UNCHANGED <<opts, base_env, env, mrg, wp, rr, pc, procs, spawned, attempts, termLog, sdCalls,
                   sigCount, readyOK, fatal, exitCode>>

\* line 343: raise SystemExit(code)
ShutdownExit ==
    /\ pc = "shutdown"
    /\ sd.phase = "raise"
    /\ pc' = "done"
    /\ exitCode' = sd.code
    /\ UNCHANGED <<opts, base_env, env, mrg, wp, rr, procs, spawned, pstate, attempts, sd, termLog,
                   sdCalls, sigCount, readyOK, fatal>>

(***************************************************************************)
(* Signals (lines 345-349)                                                 *)
(***************************************************************************)
SigExitCodeAsDie == DieCode

\* line 346: _shutdown_and_exit(130)
SigExitCode == 130

\* SIGINT or SIGTERM reaches the orchestrator once the handlers are installed;
\* the handler runs between two steps of the control thread, also inside a
\* shutdown_all call that is already running, which its SystemExit abandons
HandleSig ==
    /\ pc \notin {"init", "done"}
    /\ sigCount < MaxSignals
    /\ sigCount' = sigCount + 1
    /\ _shutdown_and_exit(SigExitCode)
    /\ UNCHANGED <<opts, base_env, env, mrg, wp, rr, procs, spawned, pstate, attempts, readyOK, fatal,
                   exitCode>>

(***************************************************************************)
(* The child processes                                                     *)
(***************************************************************************)
\* stages whose process opens a TCP port
HasPort(s) == s \in {"tracing", "proxy"} \/ (s = "mcp" /\ rr.server_type = "http")

ChildListens(s) ==
    /\ pc # "done"
    /\ Running(s)
    /\ HasPort(s)
    /\ ~pstate[s].listening
    /\ pstate' = [pstate EXCEPT ![s].listening = TRUE, ![s].opened = TRUE]
    /\ UNCHANGED <<opts, base_env, env, mrg, wp, rr, pc, procs, spawned, attempts, sd, termLog, sdCalls,
                   sigCount, readyOK, fatal, exitCode>>

\* a child ends on its own or after a terminate signal
ChildExits(s, c) ==
    /\ pc # "done"
    /\ Running(s)
    /\ s # "client" => c = 0
    /\ pstate' = [pstate EXCEPT ![s].st = "exited", ![s].listening = FALSE,
                                ![s].rc = c]
    /\ UNCHANGED <<opts, base_env, env, mrg, wp, rr, pc, procs, spawned, attempts, sd, termLog, sdCalls,
                   sigCount, readyOK, fatal, exitCode>>

Next ==
    \/ LoadAndResolve
    \/ StartTracing
    \/ AppendHandle
    \/ ProbeSucceeds
    \/ ProbeFails
    \/ ProbeTimesOut
    \/ SkipProxy
    \/ RejectReverseTarget
    \/ StartProxy
    \/ StartMcp
    \/ SkipMcp
    \/ UnsupportedMcpType
    \/ GraceOver
    \/ McpUrlParsed
    \/ McpUrlInvalid
    \/ SpawnFails
    \/ RunClient
    \/ ClientReturns
    \/ TerminateStep
    \/ WaitDone
    \/ WaitExpires
    \/ ShutdownExit
    \/ HandleSig
    \/ \E s \in StageSet : ChildListens(s)
    \/ \E s \in StageSet, c \in 0..MaxClientCode : ChildExits(s, c)

Spec == Init /\ [][Next]_vars

(***************************************************************************)
(* Properties                                                              *)
(***************************************************************************)
Names(log) == {log[n].p : n \in 1..Len(log)}
InSeq(x, q) == \E n \in 1..Len(q) : q[n] = x
Pos(x, q) == CHOOSE n \in 1..Len(q) : q[n] = x
Exited == pc = "done"
NoneRunning == \A s \in StageSet : ~Running(s)
\* the terminate signals of the last shutdown_all call went out in reverse
\* order of creation
TermReverseOf(q) ==
    \A m, n \in 1..Len(termLog) :
        m < n => /\ InSeq(termLog[m].p, q) /\ InSeq(termLog[n].p, q)
                 /\ Pos(termLog[m].p, q) > Pos(termLog[n].p, q)

\* C1: when a readiness probe fails to succeed within its deadline the run
\* ends with the client never launched, the processes started so far (and no
\* others) terminated in reverse start order, exit code 1 and no child
\* process still running.
C1_ReadinessFailureShutsDown ==
    (Exited /\ fatal = "readiness_timeout") =>
        /\ ~InSeq("client", spawned)
        /\ exitCode = 1
        /\ sdCalls = 1
        /\ Names(termLog) \subseteq {spawned[n] : n \in 1..Len(spawned)}
        /\ TermReverseOf(spawned)
        /\ NoneRunning

\* C2: a SIGINT or SIGTERM delivered after the first child was spawned leads
\* to every child spawned so far, the client included, being shut down before
\* the orchestrator exits.
C2_SignalShutsDownEveryChild ==
    (Exited /\ sigCount > 0 /\ Len(spawned) > 0) =>
        /\ NoneRunning
        /\ TermReverseOf(spawned)

\* C3: every fatal error other than a readiness timeout that is raised after
\* a process was spawned passes through shutdown_all, so that no child
\* process is left running.
OtherFatal == {"spawn_failure", "bad_reverse_target", "unsupported_mcp_type",
               "invalid_mcp_url"}

C3_FatalErrorShutsDown ==
    (Exited /\ fatal \in OtherFatal /\ Len(spawned) > 0) =>
        /\ sdCalls > 0
        /\ NoneRunning

\* C4: one shutdown_all call sends its terminate signals in strictly reverse
\* order of the handle sequence, to every handle still running and to none
\* that has already exited.
C4_TerminateInReverseOrder ==
    /\ TermReverseOf(procs)
    /\ \A n \in 1..Len(termLog) : termLog[n].alive
    /\ (sdCalls > 0 /\ sd.phase \in {"wait", "raise"}) =>
            \A n \in 1..Len(procs) :
                procs[n] \in Names(termLog) \/ ~Running(procs[n])

C4_Witness ==
    /\ pc = "shutdown"
    /\ sd.phase = "wait"
    /\ Len(procs) = 3
    /\ Len(termLog) = 2
    /\ termLog[1].p = "mcp"
    /\ termLog[2].p = "tracing"

\* C5: processes are spawned in the order tracing, proxy, MCP server, client,
\* and a later stage is spawned only after the port of each earlier gated
\* stage (tracing, the proxy when its stage runs, the server when the
\* transport is http) was found reachable.
StageNo(s) == CHOOSE n \in 1..Len(Stages) : Stages[n] = s
Gate(s) == s \in readyOK /\ pstate[s].opened

C5_StagesInOrderBehindGates ==
    /\ \A m, n \in 1..Len(spawned) :
            m < n => StageNo(spawned[m]) < StageNo(spawned[n])
    /\ Len(spawned) > 0 => spawned[1] = "tracing"
    /\ Len(spawned) > 1 => Gate("tracing")
    /\ InSeq("proxy", spawned) => ProxyStageRuns(rr.cfg)
    /\ (InSeq("mcp", spawned) \/ InSeq("client", spawned)) =>
            (ProxyStageRuns(rr.cfg) => Gate("proxy"))
    /\ InSeq("client", spawned) =>
            (rr.server_type = "http" => Gate("mcp"))

C5_Witness ==
    /\ pc = "client_wait"
    /\ spawned = Stages
    /\ rr.server_type = "http"

\* C6: when every stage became ready and the client exits with code c, no
\* signal having been received, the orchestrator shuts the background
\* processes down and exits with code c.
C6_ExitCodeIsClientCode ==
    (Exited /\ sigCount = 0 /\ fatal = "" /\ InSeq("client", spawned)) =>
        /\ exitCode = pstate["client"].rc
        /\ sdCalls = 1
        /\ \A n \in 1..Len(procs) : ~Running(procs[n])

C6_Witness ==
    /\ Exited
    /\ sigCount = 0
    /\ fatal = ""
    /\ pstate["client"].st = "exited"
    /\ pstate["client"].rc = 1
    /\ exitCode = 1
    /\ Len(procs) = 3

\* C7: a run ended by an interrupt signal, at whatever stage it arrives once
\* the handlers are installed, exits with code 130.
C7_SignalExitCode ==
    (Exited /\ sigCount > 0) => exitCode = 130

C7_Witness ==
    /\ Exited
    /\ sigCount = 1
    /\ exitCode = 130
    /\ InSeq("client", spawned)

\* C8: requesting a profile name that is not a key of the profiles of the
\* document fails with exit code 1 before any process is spawned.
C8_UnknownProfileFails ==
    (pc # "init" /\ opts.profile # NoneVal
                 /\ opts.profile \notin DOMAIN RawDoc.profiles) =>
        /\ Exited
        /\ exitCode = 1
        /\ spawned = <<>>

\* C9: an effective configuration with no reverse target for the model
\* provider while the proxy is enabled, no MCP lookup entry for the agent
\* provider, an unknown server or client variant, or differing server and
\* client transport types fails with exit code 1 and spawns no process.
Loaded == load_all(RawDoc, opts.profile)
Effective == ApplyOverrides(Loaded.cfg, opts)
Unresolvable(cfg) ==
    LET mcp == RawDoc.lookups.mcp
        a == cfg.agent_provider
    IN  \/ cfg.proxy.enabled
           /\ cfg.model_provider \notin DOMAIN RawDoc.lookups.model_reverse_target
        \/ a \notin DOMAIN mcp
        \/ a \in DOMAIN mcp /\ cfg.mcp_server_variant \notin DOMAIN mcp[a].servers
        \/ a \in DOMAIN mcp /\ cfg.mcp_client_variant \notin DOMAIN mcp[a].clients
        \/ /\ a \in DOMAIN mcp
           /\ cfg.mcp_server_variant \in DOMAIN mcp[a].servers
           /\ cfg.mcp_client_variant \in DOMAIN mcp[a].clients
           /\ mcp[a].servers[cfg.mcp_server_variant].type
                # mcp[a].clients[cfg.mcp_client_variant].type

C9_UnresolvableConfigFails ==
    (pc # "init" /\ Loaded.err = "" /\ Unresolvable(Effective)) =>
        /\ Exited
        /\ exitCode = 1
        /\ spawned = <<>>

C9_Witness ==
    /\ Exited
    /\ exitCode = 1
    /\ spawned = <<>>
    /\ Loaded.err = ""
    /\ Effective.mcp_server_variant = "http"
    /\ Effective.mcp_client_variant = "stdio"
    /\ Effective.model_provider = "openai"

\* C10: with the proxy enabled and a reverse target that has a path, query or
\* fragment, the run is rejected before any process is spawned, the tracing
\* sink included.
NotBare(u) == u.path # "" \/ u.params # "" \/ u.query # "" \/ u.fragment # ""

C10_BadTargetRejectedBeforeSpawn ==
    (pc # "init" /\ rr.cfg.proxy.enabled /\ rr.has_target
                 /\ NotBare(rr.reverse_target)) =>
        /\ Exited
        /\ exitCode = 1
        /\ spawned = <<>>

\* C11: in a run that reaches the client the processes spawned are exactly
\* the tracing sink, the proxy iff the proxy is enabled with a kind other
\* than none, the MCP server iff the transport is http or it is stdio with a
\* server command, and the client, each once.
SetOf(q) == {q[n] : n \in 1..Len(q)}

ExpectedProcesses ==
    {"tracing", "client"}
    \cup (IF rr.cfg.proxy.enabled /\ rr.cfg.proxy.kind # "none"
          THEN {"proxy"} ELSE {})
    \cup (IF \/ rr.server_type = "http"
             \/ /\ rr.server_type = "stdio"
                /\ "cmd" \in DOMAIN rr.server_def
                /\ rr.server_def.cmd # <<>>
          THEN {"mcp"} ELSE {})

C11_ExactProcessSet ==
    InSeq("client", spawned) =>
        /\ SetOf(spawned) = ExpectedProcesses
        /\ Len(spawned) = Cardinality(ExpectedProcesses)

C11_Witness ==
    /\ pc = "client_wait"
    /\ ~rr.cfg.proxy.enabled
    /\ rr.server_type = "stdio"
    /\ "cmd" \notin DOMAIN rr.server_def
    /\ spawned = <<"tracing", "client">>

\* C12: in the environment handed to every spawned process MCP_TRANSPORT,
\* MCP_SERVER_VARIANT, MCP_CLIENT_VARIANT and MCP_AGENT_PROVIDER equal the
\* resolved values whatever the base environment held; MCP_SERVER_URL equals
\* the server URL when the transport is http and MCP_CLIENT_CONFIG the client
\* config path when the client definition has one.
Holds(e, key, value) == key \in DOMAIN e /\ e[key] = value

C12_DerivedKeysAuthoritative ==
    \A s \in StageSet :
        pstate[s].st # "none" =>
            LET e == pstate[s].env
            IN  /\ Holds(e, "MCP_TRANSPORT", rr.server_type)
                /\ Holds(e, "MCP_SERVER_VARIANT", rr.cfg.mcp_server_variant)
                /\ Holds(e, "MCP_CLIENT_VARIANT", rr.cfg.mcp_client_variant)
                /\ Holds(e, "MCP_AGENT_PROVIDER", rr.cfg.agent_provider)
                /\ rr.server_type = "http" =>
                        Holds(e, "MCP_SERVER_URL", UrlText(rr.server_def.url))
                /\ "client_path" \in DOMAIN rr.client_def =>
                        Holds(e, "MCP_CLIENT_CONFIG", rr.client_def.client_path)

C12_Witness ==
    /\ pc = "client_wait"
    /\ base_env = StaleEnv
    /\ spawned = Stages
    /\ rr.server_type = "http"
    /\ pstate["client"].env["MCP_TRANSPORT"] = "http"
    /\ pstate["tracing"].env["MCP_CLIENT_CONFIG"] = "http.json"
    /\ pstate["proxy"].env["MCP_SERVER_URL"] = "http://127.0.0.1:9999/mcp"

\* C13 as stated: BASE_URL of the base environment is kept; otherwise
\* BASE_URL is set to the proxy listen address iff the proxy is enabled; the
\* base environment map is not modified.
ProxyAddr == HttpAddr(rr.cfg.proxy.listen_host, rr.cfg.proxy.listen_port)
EnvBuilt == pc # "init" /\ rr.err = ""

C13_BaseUrlIffEnabled ==
    EnvBuilt =>
        /\ base_env \in BaseEnvs
        /\ IF "BASE_URL" \in DOMAIN base_env
           THEN Holds(env, "BASE_URL", base_env["BASE_URL"])
           ELSE Holds(env, "BASE_URL", ProxyAddr) <=> rr.cfg.proxy.enabled

\* C13 amended: BASE_URL of the base environment is kept; otherwise BASE_URL
\* is set to the proxy listen address iff the proxy is enabled and its kind
\* is not none; the base environment map is not modified.
C13_BaseUrlSoftDefault ==
    EnvBuilt =>
        /\ base_env \in BaseEnvs
        /\ IF "BASE_URL" \in DOMAIN base_env
           THEN Holds(env, "BASE_URL", base_env["BASE_URL"])
           ELSE /\ Holds(env, "BASE_URL", ProxyAddr)
                     <=> (rr.cfg.proxy.enabled /\ rr.cfg.proxy.kind # "none")
                /\ "BASE_URL" \in DOMAIN env <=> Holds(env, "BASE_URL", ProxyAddr)

C13_Witness ==
    /\ EnvBuilt
    /\ base_env = PlainEnv
    /\ rr.cfg.proxy.enabled
    /\ rr.cfg.proxy.kind = "mitmproxy"
    /\ env["BASE_URL"] = "http://127.0.0.1:8002"

(***************************************************************************)
(* _deep_merge on its own: arguments drawn from small nested mappings      *)
(***************************************************************************)
MergeLeaves == {S("1"), S("3"), D([z |-> S("1")])}
MergeInner == UNION {[K -> MergeLeaves] : K \in SUBSET {"x", "y"}}
MergeTop == {S("1"), L(<<"1", "2">>), L(<<"3">>)} \cup {D(f) : f \in MergeInner}
MergeDocs ==
    {da @@ db : da \in {<<>>} \cup {[a |-> v] : v \in MergeTop},
                db \in {<<>>} \cup {[b |-> v] : v \in {S("1"), S("3")}}}

MergeInit ==
    /\ mrg \in [a : MergeDocs, b : MergeDocs, out : {<<>>}, done : {FALSE}]
    /\ wp = NoWait
    /\ base_env = PlainEnv
    /\ env = <<>>
    /\ opts = [profile |-> NoneVal, agent |-> NoneVal, model |-> NoneVal,
               mcp_server_variant |-> NoneVal, mcp_client_variant |-> NoneVal]
    /\ rr = Unresolved("", NoCfg)
    /\ pc = "init"
    /\ procs = <<>>
    /\ spawned = <<>>
    /\ pstate = [s \in StageSet |-> NotStarted]
    /\ attempts = 0
    /\ sd = Idle
    /\ termLog = <<>>
    /\ sdCalls = 0
    /\ sigCount = 0
    /\ readyOK = {}
    /\ fatal = ""
    /\ exitCode = -1

\* line 150: _deep_merge(cfg_dict, prof)
MergeStep ==
    /\ ~mrg.done
    /\ mrg' = [mrg EXCEPT !.out = _deep_merge(mrg.a, mrg.b), !.done = TRUE]
    /\ UNCHANGED <<opts, base_env, env, wp, rr, pc, procs, spawned, pstate, attempts,
                   sd, termLog, sdCalls, sigCount, readyOK, fatal, exitCode>>

MergeNext == MergeStep

MergeSpec == MergeInit /\ [][MergeNext]_vars

\* C14: deep-merge is right-biased and recursive only where both values at a
\* key are mappings: for each key of the profile the result is the recursive
\* merge when both sides are mappings and the profile's value otherwise
\* (lists are replaced whole); keys absent from the profile keep their value.
RECURSIVE RightBiased(_, _, _)
RightBiased(a, b, out) ==
    /\ DOMAIN out = (DOMAIN a) \cup (DOMAIN b)
    /\ \A key \in DOMAIN b :
          IF key \in DOMAIN a /\ a[key].k = "dict" /\ b[key].k = "dict"
          THEN /\ out[key].k = "dict"
               /\ RightBiased(a[key].v, b[key].v, out[key].v)
          ELSE out[key] = b[key]
    /\ \A key \in (DOMAIN a) \ (DOMAIN b) : out[key] = a[key]

C14_DeepMergeRightBiased ==
    mrg.done => RightBiased(mrg.a, mrg.b, mrg.out)

C14_Witness ==
    /\ mrg.done
    /\ mrg.a = [a |-> D([x |-> S("1"), y |-> S("1")]), b |-> S("1")]
    /\ mrg.b = [a |-> D([y |-> S("3")])]
    /\ mrg.out = [a |-> D([x |-> S("1"), y |-> S("3")]), b |-> S("1")]

\* C15: once shutdown has begun it runs to completion even if further
\* signals arrive: the shutdown in progress is neither aborted nor restarted
\* by a later signal.
C15_ShutdownNotRestarted ==
    [][pc = "shutdown" => (sdCalls' = sdCalls /\ sd'.code = sd.code)]_vars

\* C16: shutdown_all is two-pass: no wait begins until a terminate signal has
\* been issued to every handle still running, and the waits follow the same
\* reverse start order.
C16_TwoPass ==
    /\ sd.phase = "term" => sd.waited = <<>>
    /\ (pc = "shutdown" /\ sd.phase = "wait") =>
            \A n \in 1..Len(procs) :
                Running(procs[n]) => pstate[procs[n]].termed
                                     /\ procs[n] \in Names(termLog)
    /\ \A m, n \in 1..Len(sd.waited) :
            m < n => Pos(sd.waited[m].p, procs) > Pos(sd.waited[n].p, procs)

C16_Witness ==
    /\ pc = "shutdown"
    /\ sd.phase = "wait"
    /\ Len(termLog) = 3
    /\ Len(sd.waited) = 2
    /\ sd.waited[1].p = "mcp"
    /\ sd.waited[2].p = "proxy"
    /\ Running("tracing")

\* C17: when shutdown_all returns every handle has exited or been sent a
\* force-kill, and a force-kill goes only to a process still alive after its
\* wait window, never to one that exited within it.
C17_AllGoneKillOnlyAlive ==
    /\ (sdCalls > 0 /\ sd.phase = "raise") =>
            /\ \A n \in 1..Len(procs) : pstate[procs[n]].st = "exited"
            /\ SetOf(procs) = {sd.waited[n].p : n \in 1..Len(sd.waited)}
    /\ \A n \in 1..Len(sd.waited) :
            /\ sd.waited[n].killed => sd.waited[n].alive
            /\ sd.waited[n].killed => pstate[sd.waited[n].p].killed

C17_Witness ==
    /\ pc = "shutdown"
    /\ sd.phase = "raise"
    /\ Len(procs) = 3
    /\ pstate["tracing"].killed
    /\ ~pstate["proxy"].killed
    /\ pstate["proxy"].termed

\* C18: the client process launched in stage 4 is the one the client
\* definition resolved for the effective configuration (after the CLI
\* overrides) defines: the definition validated for transport agreement is
\* the one that is run.
C18_ClientIsResolvedClient ==
    InSeq("client", spawned) =>
        pstate["client"].cmd
            = ClientCfg(rr.client_def).cmd \o ClientCfg(rr.client_def).args

\* C19: at every point of a run the handle sequence holds every child
\* spawned so far (tracing, proxy, MCP server and client), each once, in
\* start order.
C19_HandlesAreSpawned == procs = spawned

\* C20: if a started stage process (tracing sink, proxy or MCP server) exits
\* before the client is launched, the client is not launched, the remaining
\* processes are shut down and the orchestrator exits non-zero.
EarlyExit == \E s \in {"tracing", "proxy", "mcp"} : pstate[s].st = "exited"

C20_EarlyExitIsFatal ==
    [][(EarlyExit /\ ~InSeq("client", spawned) /\ sigCount' = 0) =>
            /\ ~InSeq("client", spawned')
            /\ pc' = "done" => (exitCode' # 0 /\ NoneRunning')]_vars

\* C22: in every run in which a proxy process exists, the reverse target it
\* was launched with has a scheme and a host and no path, params, query or
\* fragment.
LaunchedWith(u) ==
    /\ Len(pstate["proxy"].cmd) = 5
    /\ pstate["proxy"].cmd[5] = "reverse:" \o UrlText(u)

C23_NoSpawnAfterShutdownBegan ==
    [][sdCalls > 0 => (spawned' = spawned /\ procs' = procs)]_vars

\* a signal cut the start-up short: shutdown ran to its end with the later
\* stages never started
C23_Witness ==
    /\ Exited
    /\ sdCalls > 0
    /\ exitCode = SigExitCode
    /\ spawned = <<"tracing">>
    /\ procs = <<"tracing">>
    /\ rr.err = ""

\* C24: when the profile named on the command line is a key of the
\* document's profiles, resolution never fails with profile-not-found,
\* whatever the profile holds (an empty mapping included).
C24_ExistingProfileIsFound ==
    (pc # "init" /\ opts.profile \in DOMAIN RawDoc.profiles) =>
        rr.err # "profile_not_found"

(***************************************************************************)
(* wait_port on its own (lines 112-123), with a clock in tenths of a       *)
(* second that starts at 0 when the call is made                           *)
(***************************************************************************)
\* line 116: s.settimeout(0.5)
ConnectTimeout == 5
\* line 122: time.sleep(0.2)
RetrySleep == 2

\* what one connection attempt can meet: connect_ex returns 0, returns
\* ECONNREFUSED, returns EAGAIN after the socket timeout, or raises OSError
\* (an unresolvable host name, an unreachable network)
Outcomes == {"connected", "refused", "timed_out", "oserror"}

\* the time an attempt takes
Durations(o) == IF o = "timed_out" THEN {ConnectTimeout} ELSE {0, 1}

AttemptResultOSErrorEscapes(o) ==
    IF o = "connected" THEN "return_true"
    ELSE IF o = "oserror" THEN "raise" ELSE "retry"

\* lines 117-121: `== 0` returns True; any other return value and an OSError
\* fall through to the sleep
AttemptResult(o) == IF o = "connected" THEN "return_true" ELSE "retry"

WaitPortInit ==
    /\ wp \in [st : {"head"}, now : {0}, end : 0..MaxTimeout, log : {<<>>},
               ret : {FALSE}]
    /\ mrg = NoMerge
    /\ base_env = PlainEnv
    /\ env = <<>>
    /\ opts = [profile |-> NoneVal, agent |-> NoneVal, model |-> NoneVal,
               mcp_server_variant |-> NoneVal, mcp_client_variant |-> NoneVal]
    /\ rr = Unresolved("", NoCfg)
    /\ pc = "init"
    /\ procs = <<>>
    /\ spawned = <<>>
    /\ pstate = [s \in StageSet |-> NotStarted]
    /\ attempts = 0
    /\ sd = Idle
    /\ termLog = <<>>
    /\ sdCalls = 0
    /\ sigCount = 0
    /\ readyOK = {}
    /\ fatal = ""
    /\ exitCode = -1

WaitPortFrame == <<opts, base_env, env, mrg, rr, pc, procs, spawned, pstate, attempts,
                   sd, termLog, sdCalls, sigCount, readyOK, fatal, exitCode>>

\* line 114: `while time.time() < end`, and line 123 when the test fails
LoopTest ==
    /\ wp.st = "head"
    /\ wp' = IF wp.now < wp.end THEN [wp EXCEPT !.st = "connect"]
             ELSE [wp EXCEPT !.st = "ret", !.ret = FALSE]
    /\ UNCHANGED WaitPortFrame

\* lines 115-121: one attempt on a fresh socket
Attempt ==
    /\ wp.st = "connect"
    /\ \E o \in Outcomes : \E d \in Durations(o) :
          LET tried == [wp EXCEPT !.log = Append(@, [o |-> o, at |-> wp.now]),
                                  !.now = @ + d]
              res == AttemptResult(o)
          IN  wp' = IF res = "return_true"
                    THEN [tried EXCEPT !.st = "ret", !.ret = TRUE]
                    ELSE IF res = "retry" THEN [tried EXCEPT !.st = "sleep"]
                    ELSE [tried EXCEPT !.st = "raised"]
    /\ UNCHANGED WaitPortFrame

\* line 122
Sleep ==
    /\ wp.st = "sleep"
    /\ wp' = [wp EXCEPT !.st = "head", !.now = @ + RetrySleep]
    /\ UNCHANGED WaitPortFrame

WaitPortNext ==
    \/ LoopTest
    \/ Attempt
    \/ Sleep

\* the interpreter keeps running the call until it returns
WaitPortSpec == WaitPortInit /\ [][WaitPortNext]_vars /\ WF_vars(WaitPortNext)

\* C21: wait_port always returns; it returns True as soon as one attempt made
\* before the deadline connects, and False only once the deadline has passed
\* with no attempt having connected; a refused attempt, a timed-out attempt
\* and an OSError all lead to a retry, never to an early False or an
\* exception.
Connected(n) == wp.log[n].o = "connected"

WaitPortSafe ==
    /\ wp.st \in {"head", "connect", "sleep", "ret"}
    /\ \A n \in 1..Len(wp.log) :
          /\ wp.log[n].at < wp.end
          /\ Connected(n) => (n = Len(wp.log) /\ wp.st = "ret" /\ wp.ret)
    /\ (wp.st = "ret" /\ wp.ret) => (wp.log # <<>> /\ Connected(Len(wp.log)))
    /\ (wp.st = "ret" /\ ~wp.ret) =>
          /\ wp.now >= wp.end
          /\ wp.now <= wp.end + ConnectTimeout + RetrySleep
    /\ wp.st = "sleep" => ~Connected(Len(wp.log))

C21_WaitPortTerminates == []WaitPortSafe /\ <>(wp.st = "ret")

C21_Witness ==
    /\ wp.st = "ret"
    /\ ~wp.ret
    /\ {wp.log[n].o : n \in 1..Len(wp.log)} = {"refused", "timed_out", "oserror"}

(***************************************************************************)
(* Progress: the control thread of `up` keeps running, and the client,     *)
(* once launched, eventually exits                                         *)
(***************************************************************************)
Opt(profile, model, server, client) ==
    [profile |-> profile, agent |-> NoneVal, model |-> model,
     mcp_server_variant |-> server, mcp_client_variant |-> client]

\* command lines that between them take every path through the stages
LiveOpts ==
    {Opt(NoneVal, NoneVal, NoneVal, NoneVal),
     Opt("dev", NoneVal, NoneVal, NoneVal),
     Opt("noproxy", NoneVal, "quiet", NoneVal),
     Opt("kindnone", NoneVal, NoneVal, NoneVal),
     Opt(NoneVal, "anthropic", NoneVal, NoneVal),
     Opt(NoneVal, NoneVal, "nohost", "http"),
     Opt(NoneVal, NoneVal, "sse", "sse"),
     Opt("ghost", NoneVal, NoneVal, NoneVal)}

LiveInit ==
    /\ Init
    /\ opts \in LiveOpts
    /\ base_env = PlainEnv

\* the statements of `up` and of the functions it calls
Control ==
    \/ LoadAndResolve
    \/ StartTracing
    \/ AppendHandle
    \/ ProbeSucceeds
    \/ ProbeFails
    \/ ProbeTimesOut
    \/ SkipProxy
    \/ RejectReverseTarget
    \/ StartProxy
    \/ StartMcp
    \/ SkipMcp
    \/ UnsupportedMcpType
    \/ GraceOver
    \/ McpUrlParsed
    \/ McpUrlInvalid
    \/ RunClient
    \/ ClientReturns
    \/ TerminateStep
    \/ WaitDone
    \/ WaitExpires
    \/ ShutdownExit

ClientExits == \E c \in 0..MaxClientCode : ChildExits("client", c)

LiveSpec ==
    /\ LiveInit
    /\ [][Next]_vars
    /\ WF_vars(Control)
    /\ WF_vars(ClientExits)

\* C25: every run of `up` eventually exits, provided the client process
\* eventually exits once launched.
C25_UpEventuallyExits == <>Exited

\* a run that went through every gate, was held up at each of them and at
\* shutdown, and still ended
C25_Witness ==
    /\ Exited
    /\ spawned = <<"tracing", "proxy", "mcp", "client">>
    /\ readyOK = {"tracing", "proxy", "mcp"}
    /\ sdCalls = 1
    /\ \A s \in SetOf(procs) : pstate[s].killed

====
